---------------------------- MODULE Spec2Model ----------------------------
(***************************************************************************)
(* Model of rwtools/graphtools/solvers.py: the capability probing done at  *)
(* module import and the solver entry points solve_cg_mg, solve_cg,        *)
(* cholesky_solver, direct_solver, solve_gpu and solve_gpu_cg.             *)
(*                                                                         *)
(* Numbers are exact integers; the float value 1.0 of np.ones is 1.  The   *)
(* numerical kernels (scipy cg, cholmod, splu, spsolve, cupy cg) are       *)
(* external: a CG solve returns any vector and any info code, a            *)
(* factorization or a device solve either succeeds or raises.  A column of *)
(* b is identified by its 0-based index.                                   *)
(***************************************************************************)
EXTENDS Integers, Sequences, FiniteSets

\* Largest number of columns of b (b.shape[-1]) a call is made with.
MaxCols == 3
\* Number of rows of A and b (b.shape[0]); every operation acts row by row.
NRows == 1
\* Entries of a vector returned by a CG solve range over 0..MaxVal.
MaxVal == 1

VARIABLES
    present,                \* optional packages installed in the environment
    loadPc,                 \* position of the module's import-time code
    use_direct_solver_mg,   \* "True" when pyamg could not be imported
    use_cholesky,           \* "True" when sksparse could not be imported
    warned,                 \* packages a warning was emitted for
    entry,                  \* function the caller invoked
    fn,                     \* function whose body is executing
    pc,                     \* position inside fn
    pre_conditioner,        \* argument of solve_cg_mg
    ncols,                  \* b.shape[-1]
    i,                      \* loop index
    M,                      \* preconditioner handed to cg
    pu,                     \* solve_cg_mg: list of solved columns
    pu_sum,                 \* solve_cg_mg: _pu_sum
    x,                      \* cholesky_solver x / solve_gpu pu: result matrix
    log,                    \* calls made to the numerical backends, in order
    nonconv,                \* some CG solve of this call returned info > 0
    deviceHeld,             \* device objects referenced by the call's frame
    outcome,                \* "none", "running", "returned" or "raised"
    ret,                    \* value returned to the caller
    prev                    \* backend calls of the previous CG call on the same inputs

modVars == <<present, loadPc, use_direct_solver_mg, use_cholesky, warned>>
frameVars == <<entry, fn, pc, pre_conditioner, ncols, i, M, pu, pu_sum, x,
               log, nonconv, deviceHeld, outcome, ret, prev>>
vars == <<present, loadPc, use_direct_solver_mg, use_cholesky, warned,
          entry, fn, pc, pre_conditioner, ncols, i, M, pu, pu_sum, x,
          log, nonconv, deviceHeld, outcome, ret, prev>>

Backends == {"pyamg", "cupy", "cupyx", "sksparse"}
Rows == 1..NRows
Vec == [Rows -> 0..MaxVal]
Cols == 0..MaxCols
CgEntries == {"solve_cg", "solve_cg_mg"}
GpuEntries == {"solve_gpu", "solve_gpu_cg"}
Entries == CgEntries \cup GpuEntries \cup {"cholesky_solver", "direct_solver"}
NoPrev == [entry |-> "none", pre |-> "None", ncols |-> 0, log |-> <<>>,
           outcome |-> "none", shape |-> <<>>]

\* np.ones(b.shape[0])
Ones == [r \in Rows |-> 1]

\* One call to a numerical backend.
Event(op, col, m) == [op |-> op, col |-> col, M |-> m]

\* A column obtained from a linear solve of column c of b / the remainder column.
Solved(c) == [kind |-> "solve", src |-> c]
SolvedX(c, v) == [kind |-> "solve", src |-> c, x |-> v]
Remainder(v) == [kind |-> "remainder", src |-> -1, x |-> v]

\* The columns of a matrix without their values: how each was obtained.
Shape(m) == [j \in 1..Len(m) |-> [kind |-> m[j].kind, src |-> m[j].src]]

----------------------------------------------------------------------------
(* Module import: capability probing *)

ImportPyamg ==
    /\ loadPc = "import_pyamg"
    /\ IF "pyamg" \in present
         THEN /\ use_direct_solver_mg' = "False"
              /\ warned' = warned
         ELSE /\ use_direct_solver_mg' = "True"
              /\ warned' = warned \cup {"pyamg"}
    /\ loadPc' = "import_cupy"
    /\ UNCHANGED <<present, use_cholesky>>
    /\ UNCHANGED frameVars

\* import cupy, outside any try: an ImportError ends the import of the module.
ImportCupy ==
    /\ loadPc = "import_cupy"
    /\ loadPc' = IF "cupy" \in present THEN "import_cupyx" ELSE "aborted"
    /\ UNCHANGED <<present, use_direct_solver_mg, use_cholesky, warned>>
    /\ UNCHANGED frameVars

\* import cupyx, cupyx.scipy.sparse.linalg (splu, cg), outside any try.
ImportCupyx ==
    /\ loadPc = "import_cupyx"
    /\ loadPc' = IF "cupyx" \in present THEN "import_sksparse" ELSE "aborted"
    /\ UNCHANGED <<present, use_direct_solver_mg, use_cholesky, warned>>
    /\ UNCHANGED frameVars

ImportSksparse ==
    /\ loadPc = "import_sksparse"
    /\ IF "sksparse" \in present
         THEN /\ use_cholesky' = "False"
              /\ warned' = warned
         ELSE /\ use_cholesky' = "True"
              /\ warned' = warned \cup {"sksparse"}
    /\ loadPc' = "loaded"
    /\ UNCHANGED <<present, use_direct_solver_mg>>
    /\ UNCHANGED frameVars

----------------------------------------------------------------------------
(* A caller invokes one of the solvers *)

StartPc(e) ==
    CASE e = "solve_cg" -> "delegate"
      [] e = "solve_cg_mg" -> "precond"
      [] e = "cholesky_solver" -> "chol_check"
      [] e = "direct_solver" -> "spsolve"
      [] OTHER -> "transfer"

\* What is remembered of a finished CG call while the caller goes on to call a
\* CG solver again with the same A and b.
Summary == [entry |-> entry, pre |-> pre_conditioner, ncols |-> ncols,
            log |-> log, outcome |-> outcome, shape |-> Shape(ret)]

Call(e, m, p) ==
    /\ loadPc = "loaded"
    /\ outcome = "none"
    /\ entry' = e
    /\ fn' = e
    /\ pc' = StartPc(e)
    /\ pre_conditioner' = p
    /\ ncols' = m
    /\ i' = 0
    /\ M' = "unset"
    /\ pu' = <<>>
    /\ pu_sum' = Ones
    /\ x' = <<>>
    /\ log' = <<>>
    /\ nonconv' = FALSE
    /\ deviceHeld' = {}
    /\ outcome' = "running"
    /\ ret' = <<>>
    /\ prev' = IF e \in CgEntries /\ prev.entry # "none" /\ m = prev.ncols
                 THEN prev ELSE NoPrev
    /\ UNCHANGED modVars

\* The caller has the returned matrix or has handled the exception: the frame
\* and whatever it referenced are gone.
TakeResult ==
    /\ outcome \in {"returned", "raised"}
    /\ prev' = IF entry \in CgEntries THEN Summary ELSE NoPrev
    /\ entry' = "none"
    /\ fn' = "none"
    /\ pc' = "none"
    /\ pre_conditioner' = "None"
    /\ ncols' = 0
    /\ i' = 0
    /\ M' = "unset"
    /\ pu' = <<>>
    /\ pu_sum' = Ones
    /\ x' = <<>>
    /\ log' = <<>>
    /\ nonconv' = FALSE
    /\ deviceHeld' = {}
    /\ outcome' = "none"
    /\ ret' = <<>>
    /\ UNCHANGED modVars

CallSolver ==
    \E e \in Entries, m \in Cols :
        \E p \in (IF e = "solve_cg_mg" THEN {"True", "False"} ELSE {"None"}) :
            Call(e, m, p)

----------------------------------------------------------------------------
(* solve_cg and solve_cg_mg *)

\* return solve_cg_mg(A, b, tol=tol, pre_conditioner=None)
SolveCg ==
    /\ outcome = "running" /\ fn = "solve_cg" /\ pc = "delegate"
    /\ fn' = "solve_cg_mg"
    /\ pre_conditioner' = "None"
    /\ pc' = "precond"
    /\ UNCHANGED <<entry, ncols, i, M, pu, pu_sum, x, log, nonconv,
                   deviceHeld, outcome, ret, prev>>
    /\ UNCHANGED modVars

\* if pre_conditioner and not use_direct_solver_mg
UsePreconditioner_IgnoreFlag == pre_conditioner = "True"
UsePreconditioner == pre_conditioner = "True" /\ use_direct_solver_mg # "True"

\* pu = [] ... _pu_sum = np.ones(...): mg_preconditioner needs the name pyamg,
\* which is bound only when the import succeeded.
CgPrecondition ==
    /\ outcome = "running" /\ fn = "solve_cg_mg" /\ pc = "precond"
    /\ IF UsePreconditioner
         THEN /\ log' = Append(log, Event("mg_preconditioner", -1, "-"))
              /\ IF "pyamg" \in present
                   THEN /\ M' = "mg" /\ pc' = "loop" /\ outcome' = outcome
                   ELSE /\ M' = M /\ pc' = "exit" /\ outcome' = "raised"
         ELSE /\ M' = "None" /\ pc' = "loop"
              /\ UNCHANGED <<log, outcome>>
    /\ pu' = <<>>
    /\ pu_sum' = Ones
    /\ i' = 0
    /\ UNCHANGED <<entry, fn, pre_conditioner, ncols, x, nonconv, deviceHeld, ret, prev>>
    /\ UNCHANGED modVars

\* range(b.shape[-1] - 1)
CgLoopBound_AllColumns == ncols
CgLoopBound == ncols - 1

\* _pu_sum -= _pu
Accumulate_Add(s, v) == [r \in Rows |-> s[r] + v[r]]
Accumulate(s, v) == [r \in Rows |-> s[r] - v[r]]

\* One iteration: read column i of b (b[:, i], dense or sparse alike), run cg
\* with the caller's tol and M, keep element [0] of its result.
CgSolveColumn ==
    /\ outcome = "running" /\ fn = "solve_cg_mg" /\ pc = "loop"
    /\ i < CgLoopBound
    /\ \E v \in Vec, info \in {0, 1} :
        /\ log' = Append(log, Event("cg", i, M))
        /\ pu_sum' = Accumulate(pu_sum, v)
        /\ pu' = Append(pu, SolvedX(i, v))
        /\ nonconv' = (nonconv \/ info # 0)
    /\ i' = i + 1
    /\ UNCHANGED <<entry, fn, pc, pre_conditioner, ncols, M, x, deviceHeld,
                   outcome, ret, prev>>
    /\ UNCHANGED modVars

\* The remainder appended without waiting for the loop to end.
CgFinish_Early ==
    /\ outcome = "running" /\ fn = "solve_cg_mg" /\ pc = "loop"
    /\ pu' = Append(pu, Remainder(pu_sum))
    /\ ret' = pu'
    /\ outcome' = "returned"
    /\ pc' = "exit"
    /\ UNCHANGED <<entry, fn, pre_conditioner, ncols, i, M, pu_sum, x, log,
                   nonconv, deviceHeld, prev>>
    /\ UNCHANGED modVars

\* pu.append(_pu_sum); return np.array(pu).T
CgFinish ==
    /\ outcome = "running" /\ fn = "solve_cg_mg" /\ pc = "loop"
    /\ ~(i < CgLoopBound)
    /\ pu' = Append(pu, Remainder(pu_sum))
    /\ ret' = pu'
    /\ outcome' = "returned"
    /\ pc' = "exit"
    /\ UNCHANGED <<entry, fn, pre_conditioner, ncols, i, M, pu_sum, x, log,
                   nonconv, deviceHeld, prev>>
    /\ UNCHANGED modVars

----------------------------------------------------------------------------
(* cholesky_solver and direct_solver *)

\* if use_cholesky: (the flag is True when the backend is missing)
CholeskyUnavailable_Inverted == use_cholesky = "False"
CholeskyUnavailable == use_cholesky = "True"

\* if use_cholesky: return direct_solver(A, b)
\* A_solver, x = cholesky(A), np.empty_like(b)
CholeskyEnter ==
    /\ outcome = "running" /\ fn = "cholesky_solver" /\ pc = "chol_check"
    /\ IF CholeskyUnavailable
         THEN /\ fn' = "direct_solver" /\ pc' = "spsolve"
              /\ log' = Append(log, Event("direct_solver", -1, "-"))
              /\ UNCHANGED <<x, outcome>>
         ELSE /\ fn' = fn
              /\ log' = Append(log, Event("cholesky", -1, "-"))
              /\ \/ /\ "sksparse" \in present
                    /\ x' = [j \in 1..ncols |-> [kind |-> "uninit", src |-> -1]]
                    /\ pc' = "chol_loop"
                    /\ outcome' = outcome
                 \/ /\ pc' = "exit"
                    /\ outcome' = "raised"
                    /\ x' = x
    /\ i' = 0
    /\ UNCHANGED <<entry, pre_conditioner, ncols, M, pu, pu_sum, nonconv,
                   deviceHeld, ret, prev>>
    /\ UNCHANGED modVars

\* range(b.shape[-1])
CholLoopBound_Completion == ncols - 1
CholLoopBound == ncols

\* _x = A_solver.solve_A(b[:, i]); x[:, i] = ...
CholSolveColumn ==
    /\ outcome = "running" /\ fn = "cholesky_solver" /\ pc = "chol_loop"
    /\ i < CholLoopBound
    /\ log' = Append(log, Event("solve_A", i, "-"))
    /\ x' = [x EXCEPT ![i + 1] = Solved(i)]
    /\ i' = i + 1
    /\ UNCHANGED <<entry, fn, pc, pre_conditioner, ncols, M, pu, pu_sum,
                   nonconv, deviceHeld, outcome, ret, prev>>
    /\ UNCHANGED modVars

CholReturn ==
    /\ outcome = "running" /\ fn = "cholesky_solver" /\ pc = "chol_loop"
    /\ ~(i < CholLoopBound)
    /\ ret' = x
    /\ outcome' = "returned"
    /\ pc' = "exit"
    /\ UNCHANGED <<entry, fn, pre_conditioner, ncols, i, M, pu, pu_sum, x,
                   log, nonconv, deviceHeld, prev>>
    /\ UNCHANGED modVars

\* return spsolve(A, b, use_umfpack=True): one call solves all the columns of b
DirectSolver ==
    /\ outcome = "running" /\ fn = "direct_solver" /\ pc = "spsolve"
    /\ log' = Append(log, Event("spsolve", -1, "-"))
    /\ ret' = [j \in 1..ncols |-> Solved(j - 1)]
    /\ outcome' = "returned"
    /\ pc' = "exit"
    /\ UNCHANGED <<entry, fn, pre_conditioner, ncols, i, M, pu, pu_sum, x,
                   nonconv, deviceHeld, prev>>
    /\ UNCHANGED modVars

----------------------------------------------------------------------------
(* solve_gpu and solve_gpu_cg *)

\* b_gpu, cp_A_data, cp_A_incices, cp_A_indptr = cp.asarray(...); A_gpu = csc_matrix(...)
GpuTransfer ==
    /\ outcome = "running" /\ fn \in GpuEntries /\ pc = "transfer"
    /\ deviceHeld' = {"b_gpu", "cp_A_data", "cp_A_incices", "cp_A_indptr", "A_gpu"}
    /\ pc' = IF fn = "solve_gpu" THEN "splu" ELSE "zeros"
    /\ UNCHANGED <<entry, fn, pre_conditioner, ncols, i, M, pu, pu_sum, x, log,
                   nonconv, outcome, ret, prev>>
    /\ UNCHANGED modVars

\* A_splu = cp_sp_linalg.splu(A_gpu): raises on a singular matrix.  The raised
\* exception's traceback keeps the frame, and so its locals, alive.
GpuFactorize ==
    /\ outcome = "running" /\ fn = "solve_gpu" /\ pc = "splu"
    /\ log' = Append(log, Event("splu", -1, "-"))
    /\ \/ /\ deviceHeld' = deviceHeld \cup {"A_splu"}
          /\ pc' = "zeros"
          /\ outcome' = outcome
       \/ /\ deviceHeld' = deviceHeld
          /\ pc' = "exit"
          /\ outcome' = "raised"
    /\ UNCHANGED <<entry, fn, pre_conditioner, ncols, i, M, pu, pu_sum, x,
                   nonconv, ret, prev>>
    /\ UNCHANGED modVars

\* pu = cp.zeros_like(b_gpu)
GpuZeros ==
    /\ outcome = "running" /\ fn \in GpuEntries /\ pc = "zeros"
    /\ x' = [j \in 1..ncols |-> [kind |-> "zero", src |-> -1]]
    /\ deviceHeld' = deviceHeld \cup {"pu"}
    /\ i' = 0
    /\ pc' = "gpu_loop"
    /\ UNCHANGED <<entry, fn, pre_conditioner, ncols, M, pu, pu_sum, log,
                   nonconv, outcome, ret, prev>>
    /\ UNCHANGED modVars

\* range(b.shape[-1])
GpuLoopBound_Completion == ncols - 1
GpuLoopBound == ncols

\* pu[:, i] = A_splu.solve(b_gpu[:, i])
GpuSolveColumn ==
    /\ outcome = "running" /\ fn = "solve_gpu" /\ pc = "gpu_loop"
    /\ i < GpuLoopBound
    /\ log' = Append(log, Event("splu_solve", i, "-"))
    /\ \/ /\ x' = [x EXCEPT ![i + 1] = Solved(i)]
          /\ i' = i + 1
          /\ UNCHANGED <<pc, outcome>>
       \/ /\ pc' = "exit"
          /\ outcome' = "raised"
          /\ UNCHANGED <<x, i>>
    /\ UNCHANGED <<entry, fn, pre_conditioner, ncols, M, pu, pu_sum, nonconv,
                   deviceHeld, ret, prev>>
    /\ UNCHANGED modVars

\* pu[:, i], _ = cp_sp_linalg.cg(A_gpu, b_gpu[:, i], tol=1.e-3)
GpuCgColumn ==
    /\ outcome = "running" /\ fn = "solve_gpu_cg" /\ pc = "gpu_loop"
    /\ i < GpuLoopBound
    /\ log' = Append(log, Event("gpu_cg", i, "None"))
    /\ \/ /\ \E info \in {0, 1} : nonconv' = (nonconv \/ info # 0)
          /\ x' = [x EXCEPT ![i + 1] = Solved(i)]
          /\ i' = i + 1
          /\ UNCHANGED <<pc, outcome>>
       \/ /\ pc' = "exit"
          /\ outcome' = "raised"
          /\ UNCHANGED <<x, i, nonconv>>
    /\ UNCHANGED <<entry, fn, pre_conditioner, ncols, M, pu, pu_sum,
                   deviceHeld, ret, prev>>
    /\ UNCHANGED modVars

\* pu = cp.asnumpy(pu); return np.array(pu): the frame and its locals end here.
GpuReturn ==
    /\ outcome = "running" /\ fn \in GpuEntries /\ pc = "gpu_loop"
    /\ ~(i < GpuLoopBound)
    /\ ret' = x
    /\ deviceHeld' = {}
    /\ outcome' = "returned"
    /\ pc' = "exit"
    /\ UNCHANGED <<entry, fn, pre_conditioner, ncols, i, M, pu, pu_sum, x, log,
                   nonconv, prev>>
    /\ UNCHANGED modVars

----------------------------------------------------------------------------

Init ==
    /\ present \in SUBSET Backends
    /\ loadPc = "import_pyamg"
    /\ use_direct_solver_mg = "unset"
    /\ use_cholesky = "unset"
    /\ warned = {}
    /\ entry = "none"
    /\ fn = "none"
    /\ pc = "none"
    /\ pre_conditioner = "None"
    /\ ncols = 0
    /\ i = 0
    /\ M = "unset"
    /\ pu = <<>>
    /\ pu_sum = Ones
    /\ x = <<>>
    /\ log = <<>>
    /\ nonconv = FALSE
    /\ deviceHeld = {}
    /\ outcome = "none"
    /\ ret = <<>>
    /\ prev = NoPrev

Next ==
    \/ ImportPyamg
    \/ ImportCupy
    \/ ImportCupyx
    \/ ImportSksparse
    \/ CallSolver
    \/ TakeResult
    \/ SolveCg
    \/ CgPrecondition
    \/ CgSolveColumn
    \/ CgFinish
    \/ CholeskyEnter
    \/ CholSolveColumn
    \/ CholReturn
    \/ DirectSolver
    \/ GpuTransfer
    \/ GpuFactorize
    \/ GpuZeros
    \/ GpuSolveColumn
    \/ GpuCgColumn
    \/ GpuReturn

Spec == Init /\ [][Next]_vars

----------------------------------------------------------------------------
(* Vocabulary of the properties *)

Finished == outcome \in {"returned", "raised"}
Returned(es) == outcome = "returned" /\ entry \in es

\* The backend calls of kind op made so far, in order.
Calls(op) == SelectSeq(log, LAMBDA e : e.op = op)

\* <<0, 1, ..., n-1>> as backend calls of kind op with preconditioner m.
ColumnCalls(op, n, m) == [j \in 1..n |-> Event(op, j - 1, m)]

RECURSIVE SumX(_, _, _)
\* Sum over the first n columns of matrix m of the entry in row r.
SumX(m, n, r) == IF n = 0 THEN 0 ELSE m[n].x[r] + SumX(m, n - 1, r)

Max(a, b) == IF a >= b THEN a ELSE b

----------------------------------------------------------------------------
(* Properties *)

\* C1: a matrix returned by solve_cg_mg / solve_cg for a b with at least one
\* column has every row summing to 1, whatever the CG solves returned and
\* whether or not pyamg is available.
C1_RowsSumToOne ==
    (Returned(CgEntries) /\ ncols >= 1) =>
        \A r \in Rows : SumX(ret, Len(ret), r) = 1

C1_Witness ==
    /\ Returned(CgEntries) /\ ncols = MaxCols
    /\ use_direct_solver_mg = "True"
    /\ \A j \in 1..(ncols - 1) : \A r \in Rows : ret[j].x[r] = MaxVal

\* C2 as stated: b with L-1 columns has each of its L-1 columns solved and X
\* has L columns, the last being 1 minus the sum of the solved ones.
C2_AsStated ==
    (Returned(CgEntries) /\ ncols >= 1) =>
        /\ Calls("cg") = ColumnCalls("cg", ncols, M)
        /\ Len(ret) = ncols + 1
        /\ \A r \in Rows : ret[Len(ret)].x[r] = 1 - SumX(ret, Len(ret) - 1, r)

\* C2 amended: b with M >= 1 columns has only its first M-1 columns solved and
\* X has M columns: column j is the CG solution of column j of b for j < M-1
\* and the last is 1 minus the sum of the M-1 solved columns.
C2_SolvesAllButLast ==
    (Returned(CgEntries) /\ ncols >= 1) =>
        /\ Calls("cg") = ColumnCalls("cg", ncols - 1, M)
        /\ Len(ret) = ncols
        /\ \A j \in 1..(ncols - 1) : ret[j].kind = "solve" /\ ret[j].src = j - 1
        /\ ret[ncols].kind = "remainder"
        /\ \A r \in Rows : ret[ncols].x[r] = 1 - SumX(ret, ncols - 1, r)

C2_Witness ==
    /\ Returned(CgEntries) /\ ncols = 2
    /\ Len(ret) = 2 /\ Len(Calls("cg")) = 1
    /\ ret[1].x[1] = 1 /\ ret[2].x[1] = 0

\* C3: a call in which the CG solve of some column did not converge does not
\* return normally with a plain matrix.
C3_NonConvergenceSurfaced ==
    (Returned(CgEntries \cup {"solve_gpu_cg"})) => ~nonconv

\* C4: with pyamg unavailable, solve_cg_mg(pre_conditioner=True) never raises
\* and never calls mg_preconditioner; next to a solve_cg call on the same
\* inputs, both return, having made the same CG calls, all with M=None, and
\* having built their results the same way.
C4_Pair ==
    \/ entry = "solve_cg_mg" /\ pre_conditioner = "True" /\ prev.entry = "solve_cg"
    \/ entry = "solve_cg" /\ prev.entry = "solve_cg_mg" /\ prev.pre = "True"

C4_DegradesToPlainCg ==
    ("pyamg" \notin present) =>
        /\ (entry = "solve_cg_mg" /\ pre_conditioner = "True") =>
              /\ outcome # "raised"
              /\ Len(Calls("mg_preconditioner")) = 0
              /\ M \in {"unset", "None"}
        /\ (Finished /\ C4_Pair) =>
              /\ outcome = "returned" /\ prev.outcome = "returned"
              /\ log = prev.log
              /\ log = ColumnCalls("cg", Max(ncols, 1) - 1, "None")
              /\ Shape(ret) = prev.shape

C4_Witness ==
    /\ "pyamg" \notin present
    /\ Returned({"solve_cg_mg"}) /\ pre_conditioner = "True"
    /\ prev.entry = "solve_cg" /\ ncols = MaxCols
    /\ Len(log) = MaxCols - 1

\* C5: whatever optional packages are missing, the import of the module runs
\* to its end, and the flags say which of pyamg and sksparse are missing.
C5_ProbingNeverAborts ==
    (loadPc \in {"loaded", "aborted"}) =>
        /\ loadPc = "loaded"
        /\ (use_direct_solver_mg = "True") <=> ("pyamg" \notin present)
        /\ (use_cholesky = "True") <=> ("sksparse" \notin present)

\* C6: cholesky_solver without sksparse factorizes nothing, solves no column
\* itself and returns what direct_solver returns; with sksparse it never calls
\* direct_solver, factorizes once and solves every column of b against that
\* factorization.
C6_WholeStrategyFallback ==
    (entry = "cholesky_solver") =>
        IF "sksparse" \notin present
          THEN /\ Len(Calls("cholesky")) = 0 /\ Len(Calls("solve_A")) = 0
               /\ outcome # "raised"
               /\ Returned({"cholesky_solver"}) =>
                    /\ fn = "direct_solver"
                    /\ log = <<Event("direct_solver", -1, "-"), Event("spsolve", -1, "-")>>
                    /\ ret = [j \in 1..ncols |-> Solved(j - 1)]
          ELSE /\ Len(Calls("direct_solver")) = 0 /\ Len(Calls("spsolve")) = 0
               /\ Len(Calls("cholesky")) <= 1
               /\ Len(Calls("solve_A")) > 0 => log[1].op = "cholesky"
               /\ Returned({"cholesky_solver"}) =>
                    /\ log = <<Event("cholesky", -1, "-")>> \o ColumnCalls("solve_A", ncols, "-")
                    /\ ret = [j \in 1..ncols |-> Solved(j - 1)]

C6_Witness ==
    /\ Returned({"cholesky_solver"}) /\ "sksparse" \in present
    /\ ncols = MaxCols /\ Len(Calls("solve_A")) = MaxCols

\* C7 as stated: every CPU solver, cholesky_solver and direct_solver included,
\* derives the last column of its result instead of solving for it.
C7_AsStated ==
    (Returned(CgEntries \cup {"cholesky_solver", "direct_solver"}) /\ ncols >= 1) =>
        ret[Len(ret)].kind = "remainder"

\* C7 amended: only solve_cg_mg / solve_cg derive the last column as 1 minus
\* the sum of the others; cholesky_solver and direct_solver return as many
\* columns as b has, each obtained from a linear solve of that column of b.
C7_CompletionOnlyInCg ==
    /\ (Returned(CgEntries) /\ ncols >= 1) =>
          /\ ret[Len(ret)].kind = "remainder"
          /\ \A r \in Rows : ret[Len(ret)].x[r] = 1 - SumX(ret, Len(ret) - 1, r)
          /\ ret[Len(ret)].src # ncols - 1
    /\ Returned({"cholesky_solver", "direct_solver"}) =>
          /\ Len(ret) = ncols
          /\ \A j \in 1..ncols : ret[j] = Solved(j - 1)

C7_Witness ==
    /\ Returned({"cholesky_solver"}) /\ fn = "cholesky_solver"
    /\ ncols = 2 /\ ret[2] = Solved(1)

\* C8: solve_gpu and solve_gpu_cg solve every column of b: M per-column
\* solves, columns 0..M-1 once each, a result of M columns whose column i is
\* the solution for column i of b; solve_gpu factorizes once, before them.
C8_GpuSolvesEveryColumn ==
    /\ Returned({"solve_gpu"}) =>
          /\ log = <<Event("splu", -1, "-")>> \o ColumnCalls("splu_solve", ncols, "-")
          /\ ret = [j \in 1..ncols |-> Solved(j - 1)]
    /\ Returned({"solve_gpu_cg"}) =>
          /\ log = ColumnCalls("gpu_cg", ncols, "None")
          /\ ret = [j \in 1..ncols |-> Solved(j - 1)]
    /\ (entry = "solve_gpu") => Len(Calls("splu")) <= 1

C8_Witness ==
    /\ Returned({"solve_gpu"}) /\ ncols = MaxCols
    /\ Len(Calls("splu_solve")) = MaxCols /\ Len(ret) = MaxCols

\* C9: when solve_gpu or solve_gpu_cg has returned or raised, no device object
\* acquired by the call is still held.
C9_DeviceReleasedOnExit ==
    (entry \in GpuEntries /\ Finished) => deviceHeld = {}

\* C10: solve_cg_mg never reads the last column of b; it makes M-1 CG solves
\* (columns 0..M-2 in order), none when M <= 1, appends the remainder only
\* when they are all done, and returns max(M, 1) columns: a single column of
\* ones when M <= 1.
C10_LastColumnNeverRead ==
    (entry \in CgEntries) =>
        /\ \A e \in 1..Len(log) : log[e].op = "cg" => log[e].col # ncols - 1
        /\ (\E j \in 1..Len(pu) : pu[j].kind = "remainder") =>
              /\ Calls("cg") = ColumnCalls("cg", Max(ncols, 1) - 1, M)
              /\ Len(pu) = Max(ncols, 1)
              /\ pu[Len(pu)].kind = "remainder"
              /\ outcome = "returned"
        /\ outcome = "returned" =>
              /\ Len(ret) = Max(ncols, 1)
              /\ Calls("cg") = ColumnCalls("cg", Max(ncols, 1) - 1, M)
              /\ ncols <= 1 => ret = <<Remainder(Ones)>>

C10_Witness ==
    /\ Returned(CgEntries) /\ ncols = 1
    /\ Len(Calls("cg")) = 0 /\ ret = <<Remainder(Ones)>>

=============================================================================
